---- MODULE Spec2Model ----
(***************************************************************************)
(* A model of nempy's InterfaceToSolver                                    *)
(* (src/nempy/spot_markert_backend/solver_interface.py): the wrapper that  *)
(* turns pandas tables into a python-mip model, solves it, and reads the   *)
(* results back.                                                           *)
(*                                                                         *)
(* A table (pd.DataFrame) is a sequence of rows, a row is a record.  The   *)
(* native model (self.mip_model) is the pair mip_vars, mip_constrs: the    *)
(* sequences of its columns and rows in the order they were added.  A      *)
(* native variable handle (mip.Var) is its position in mip_vars.           *)
(***************************************************************************)
EXTENDS Integers, Sequences, FiniteSets, TLC

VARIABLES
    variables,     \* self.variables: dict variable_id -> handle
    mip_vars,      \* self.mip_model.vars
    mip_constrs,   \* self.mip_model.constrs
    mip_sos,       \* the special ordered sets given to self.mip_model.add_sos
    solution,      \* what the last self.mip_model.optimize() left behind
    last,          \* the last call made on the interface and how it ended
    args,          \* the tables that call was given, where a scenario records them
    other          \* the second interface object, once copy() has made one

vars == <<variables, mip_vars, mip_constrs, mip_sos, solution, last, args, other>>

(***************************************************************************)
(* Bounds of the model.                                                    *)
(***************************************************************************)
MaxVars == 2       \* native variables a batch added to a model that has some may bring it to
MaxCons == 2       \* native constraints a model may hold
MaxRows == 2       \* rows of an input table
MaxSosCalls == 2   \* add_sos_type_1 and add_sos_type_2 calls on a model
MaxRhs == 4        \* largest right-hand side update_rhs is asked to reach
MaxCallsAfterCopy == 2 \* calls the caller makes on the two objects after copy()
MaxObjectives == 2 \* add_objective_function calls on one model

VarIds == {0, 1}                   \* caller-assigned variable ids
ConIds == {1, 2}                   \* caller-assigned constraint ids
BoundPairs == {<<0, 2>>, <<1, 0>>} \* (lower_bound, upper_bound) of a row
TypeNames == {"continuous", "binary", "integer"}
Coefficients == {1, 2}
SosIds == {1, 2}                   \* caller-assigned ids of ordered sets
Positions == {0, 1}                \* positions of a variable in its set

(***************************************************************************)
(* Generic helpers.                                                        *)
(***************************************************************************)
SeqsUpTo(S, n) == UNION {[1..k -> S] : k \in 0..n}

RECURSIVE SortedSeq(_)
\* The elements of a finite set of integers in ascending order.
SortedSeq(S) ==
    IF S = {} THEN <<>>
    ELSE LET m == CHOOSE x \in S : \A y \in S : x <= y
         IN <<m>> \o SortedSeq(S \ {m})

RECURSIVE SumOver(_, _)
\* Sum of f[i] over the finite index set I.
SumOver(f, I) ==
    IF I = {} THEN 0
    ELSE LET i == CHOOSE j \in I : TRUE
         IN f[i] + SumOver(f, I \ {i})

(***************************************************************************)
(* str(id) and int(name): the names python-mip keeps are decimal strings.  *)
(***************************************************************************)
Digits == <<"0", "1", "2", "3", "4", "5", "6", "7", "8", "9">>

Str(i) == Digits[i + 1]

(***************************************************************************)
(* Exceptions: a raised exception is a one-element sequence holding a      *)
(* record of its class and its args; no exception is the empty sequence.   *)
(***************************************************************************)
NoError == <<>>

\* The key a KeyError names is left out: no caller of the interface reads it.
KeyError(key) == <<[type |-> "KeyError", args |-> <<>>]>>

ValueError(msg) == <<[type |-> "ValueError", args |-> <<[kind |-> "str", val |-> msg]>>]>>

(***************************************************************************)
(* The native model's add_var: a new column at the end of the model.  A    *)
(* binary variable gets the bounds [0, 1] whatever bounds were asked for.  *)
(***************************************************************************)
\* add_var keeping the bounds it is given for a binary variable too.
AddVarAsGiven(mv, lb, ub, var_type, name, obj) ==
    Append(mv, [name |-> name, lb |-> lb, ub |-> ub, var_type |-> var_type, obj |-> obj])

AddVar(mv, lb, ub, var_type, name, obj) ==
    Append(mv, [name     |-> name,
                lb       |-> IF var_type = "B" THEN 0 ELSE lb,
                ub       |-> IF var_type = "B" THEN 1 ELSE ub,
                var_type |-> var_type,
                obj      |-> obj])

\* variable_types: the nempy names of the variable kinds and mip's.
variable_types == [continuous |-> "C", binary |-> "B"]

RECURSIVE AddVariablesLoop(_, _, _, _)
\* The loop of add_variables over the rows of decision_variables, from row i,
\* on the registry reg and the native variables mv.  A type that is no key of
\* variable_types raises KeyError and ends the loop where it stands.
AddVariablesLoop(rows, i, reg, mv) ==
    IF i > Len(rows)
    THEN [variables |-> reg, mip_vars |-> mv, raised |-> NoError]
    ELSE LET r == rows[i]
         IN IF r.type \notin DOMAIN variable_types
            THEN [variables |-> reg, mip_vars |-> mv, raised |-> KeyError(r.type)]
            ELSE LET mv2 == AddVar(mv, r.lower_bound, r.upper_bound,
                                   variable_types[r.type], Str(r.variable_id), 0)
                 IN AddVariablesLoop(rows, i + 1,
                                     (r.variable_id :> Len(mv2)) @@ reg, mv2)

AddVariablesResult(rows) == AddVariablesLoop(rows, 1, variables, mip_vars)

\* What a call leaves in `last`.
Call(op, raised, ret, solves, printed) ==
    [op |-> op, raised |-> raised, ret |-> ret, solves |-> solves, printed |-> printed]

\* No second interface object yet.
NoCopy == <<>>

\* The second interface object after a call that left the native model of
\* this one as mv, mc, ms: it sees the change only if its mip_model is the
\* same Model object.
Follow(mv, mc, ms) ==
    IF other # NoCopy /\ other.shared
    THEN [other EXCEPT !.mip_vars = mv, !.mip_constrs = mc, !.mip_sos = ms]
    ELSE other

add_variables(decision_variables) ==
    /\ mip_vars # <<>> => Len(mip_vars) + Len(decision_variables) <= MaxVars
    /\ LET res == AddVariablesResult(decision_variables)
       IN /\ variables' = res.variables
          /\ mip_vars' = res.mip_vars
          /\ last' = Call("add_variables", res.raised, <<>>, 0, <<>>)
    /\ UNCHANGED <<mip_constrs, mip_sos, solution>>
    /\ other' = Follow(mip_vars', mip_constrs', mip_sos')

(***************************************************************************)
(* remove_variables.  A handle is the position of its variable in          *)
(* self.mip_model.vars (Var.idx + 1); mip renumbers the handles behind a   *)
(* removed variable and leaves the removed one with idx -1, here 0.        *)
(***************************************************************************)
IndexError == <<[type |-> "IndexError", args |-> <<>>]>>

\* The native library rejecting a column index it does not have.
NativeError == <<[type |-> "NativeError", args |-> <<>>]>>

\* A handle after the variable at position p has left the model.
Renumber(h, p) == IF h = p THEN 0 ELSE IF h > p THEN h - 1 ELSE h

\* A sequence without the elements at the positions in gone.
Without(seq, gone) ==
    LET kept == SortedSeq(DOMAIN seq \ gone)
    IN [k \in DOMAIN kept |-> seq[kept[k]]]

\* The interface after VarList.remove has dropped the variable at position
\* p: the column leaves every constraint and ordered set, and every handle
\* is renumbered.
RemoveAt(st, p) ==
    [variables   |-> [id \in DOMAIN st.variables |-> Renumber(st.variables[id], p)],
     mip_vars    |-> Without(st.mip_vars, {p}),
     mip_constrs |-> [i \in DOMAIN st.mip_constrs |->
                        LET e == st.mip_constrs[i].expr
                            kept == Without(e, {k \in DOMAIN e : e[k].var = p})
                        IN [st.mip_constrs[i] EXCEPT
                               !.expr = [k \in DOMAIN kept |->
                                            [kept[k] EXCEPT !.var = Renumber(@, p)]]]],
     mip_sos     |-> [i \in DOMAIN st.mip_sos |->
                        LET m == st.mip_sos[i].members
                            kept == Without(m, {k \in DOMAIN m : m[k].var = p})
                        IN [st.mip_sos[i] EXCEPT
                               !.members = [k \in DOMAIN kept |->
                                               [kept[k] EXCEPT !.var = Renumber(@, p)]]]],
     raised      |-> NoError]

RECURSIVE RemoveVariablesLoop(_, _, _)
\* The outcomes of the apply of remove_variables over the ids from the i-th
\* on.  An id that is no key of self.variables raises KeyError.  The handle
\* of a variable that has already left the model has idx -1: VarList.remove
\* then indexes its list of marks with -1, an IndexError when the model has
\* no variable, and otherwise hands -1 to the native library, which either
\* rejects it or returns, after which the last variable of the model is
\* dropped from self.mip_model.vars.
RemoveVariablesLoop(ids, i, st) ==
    IF i > Len(ids) THEN {st}
    ELSE IF ids[i] \notin DOMAIN st.variables
    THEN {[st EXCEPT !.raised = KeyError(ids[i])]}
    ELSE LET h == st.variables[ids[i]]
         IN IF h # 0 THEN RemoveVariablesLoop(ids, i + 1, RemoveAt(st, h))
            ELSE IF st.mip_vars = <<>> THEN {[st EXCEPT !.raised = IndexError]}
            ELSE {[st EXCEPT !.raised = NativeError]}
                 \cup RemoveVariablesLoop(ids, i + 1, RemoveAt(st, Len(st.mip_vars)))

RemoveVariablesResults(ids) ==
    RemoveVariablesLoop(ids, 1,
        [variables |-> variables, mip_vars |-> mip_vars, mip_constrs |-> mip_constrs,
         mip_sos |-> mip_sos, raised |-> NoError])

remove_variables(variables_to_remove) ==
    /\ \E res \in RemoveVariablesResults(variables_to_remove) :
          /\ variables' = res.variables
          /\ mip_vars' = res.mip_vars
          /\ mip_constrs' = res.mip_constrs
          /\ mip_sos' = res.mip_sos
          /\ last' = Call("remove_variables", res.raised, <<>>, 0, <<>>)
    /\ UNCHANGED solution
    /\ other' = Follow(mip_vars', mip_constrs', mip_sos')

(***************************************************************************)
(* add_sos_type_1 and add_sos_type_2.                                      *)
(***************************************************************************)
\* The name mip gives a variable added without one: var(n), n its index.
UnnamedVar(mv) == "var(" \o Str(Len(mv)) \o ")"

\* The variables that do not carry the caller's id as their name: the
\* binary variables add_sos_type_1 and add_sos_type_2 add.
IsMarker(var) == var.name \notin {Digits[d] : d \in DOMAIN Digits}

Markers(mv) == {j \in DOMAIN mv : IsMarker(mv[j])}

\* sos_variables.groupby(column).apply(add_sos_vars): one add_sos per value
\* of the column, in ascending order, of the (handle, weight) pairs of its
\* rows in table order; weights[i] is the weight of the i-th row.
AddSosGroups(ms, sos_variables, column, sos_type, weights) ==
    LET keys == SortedSeq({sos_variables[i][column] : i \in DOMAIN sos_variables})
        group(key) == SortedSeq({i \in DOMAIN sos_variables : sos_variables[i][column] = key})
    IN ms \o [g \in DOMAIN keys |->
                [type    |-> sos_type,
                 members |-> [k \in DOMAIN group(keys[g]) |->
                                [var    |-> variables[sos_variables[group(keys[g])[k]].variable_id],
                                 weight |-> weights[group(keys[g])[k]]]]]]

\* The calls with the marker added before the rows' variables are looked up.
AddSosMarkerFirst(sos_variables, column, sos_type, weights) ==
    IF \E i \in DOMAIN sos_variables : sos_variables[i].variable_id \notin DOMAIN variables
    THEN [mip_sos |-> mip_sos,
          mip_vars |-> AddVar(mip_vars, 0, 1, "B", UnnamedVar(mip_vars), 0),
          raised |-> KeyError(0)]
    ELSE [mip_sos  |-> AddSosGroups(mip_sos, sos_variables, column, sos_type, weights),
          mip_vars |-> AddVar(mip_vars, 0, 1, "B", UnnamedVar(mip_vars), 0),
          raised   |-> NoError]

\* Both calls: every row's variable is looked up in self.variables first (a
\* KeyError for an id that is no key), then the sets are added, then a
\* binary variable without a name and with objective coefficient 0.
AddSosResult(sos_variables, column, sos_type, weights) ==
    IF \E i \in DOMAIN sos_variables : sos_variables[i].variable_id \notin DOMAIN variables
    THEN [mip_sos |-> mip_sos, mip_vars |-> mip_vars, raised |-> KeyError(0)]
    ELSE [mip_sos  |-> AddSosGroups(mip_sos, sos_variables, column, sos_type, weights),
          mip_vars |-> AddVar(mip_vars, 0, 1, "B", UnnamedVar(mip_vars), 0),
          raised   |-> NoError]

add_sos_type_2(sos_variables, sos_id_columns, position_column) ==
    /\ Cardinality(Markers(mip_vars)) < MaxSosCalls
    /\ LET res == AddSosResult(sos_variables, sos_id_columns, 2,
                               [i \in DOMAIN sos_variables |->
                                   sos_variables[i][position_column]])
       IN /\ mip_sos' = res.mip_sos
          /\ mip_vars' = res.mip_vars
          /\ last' = Call("add_sos_type_2", res.raised, <<>>, 0, <<>>)
    /\ UNCHANGED <<variables, mip_constrs, solution>>
    /\ other' = Follow(mip_vars', mip_constrs', mip_sos')

add_sos_type_1(sos_variables) ==
    /\ Cardinality(Markers(mip_vars)) < MaxSosCalls
    /\ LET res == AddSosResult(sos_variables, "sos_id", 1,
                               [i \in DOMAIN sos_variables |-> 1])
       IN /\ mip_sos' = res.mip_sos
          /\ mip_vars' = res.mip_vars
          /\ last' = Call("add_sos_type_1", res.raised, <<>>, 0, <<>>)
    /\ UNCHANGED <<variables, mip_constrs, solution>>
    /\ other' = Follow(mip_vars', mip_constrs', mip_sos')

(***************************************************************************)
(* add_constraints.                                                        *)
(***************************************************************************)
\* The pivot with aggfunc='last': the last row of a pair wins.
PivotTableLast(lhs) ==
    LET ids == {lhs[i].constraint_id : i \in DOMAIN lhs}
        cols(c) == {lhs[i].variable_id : i \in {j \in DOMAIN lhs : lhs[j].constraint_id = c}}
        cell(c, v) == {i \in DOMAIN lhs : lhs[i].constraint_id = c /\ lhs[i].variable_id = v}
    IN [c \in ids |-> [v \in cols(c) |->
            lhs[CHOOSE i \in cell(c, v) : \A j \in cell(c, v) : j <= i].coefficient]]

\* pd.pivot_table(constraints_lhs, 'coefficient', 'constraint_id',
\* 'variable_id', aggfunc='sum'): for every constraint id of the table, the
\* variable ids it has rows for (the other cells are NaN) and, for each, the
\* sum of the coefficients of the rows of that pair.
PivotTable(lhs) ==
    LET ids == {lhs[i].constraint_id : i \in DOMAIN lhs}
        cols(c) == {lhs[i].variable_id : i \in {j \in DOMAIN lhs : lhs[j].constraint_id = c}}
        cell(c, v) == {i \in DOMAIN lhs : lhs[i].constraint_id = c /\ lhs[i].variable_id = v}
    IN [c \in ids |-> [v \in cols(c) |->
            SumOver([i \in DOMAIN lhs |-> lhs[i].coefficient], cell(c, v))]]

\* dict(zip(table['constraint_id'], table[column])): the last row of an id wins.
DictZip(table, column) ==
    LET ids == {table[i].constraint_id : i \in DOMAIN table}
        lastRow(c) == CHOOSE i \in DOMAIN table :
                          /\ table[i].constraint_id = c
                          /\ \A j \in DOMAIN table : table[j].constraint_id = c => j <= i
    IN [c \in ids |-> table[lastRow(c)][column]]

ValidOperators == {"<=", ">=", "="}

UnrecognisedType == "Constraint type not recognised should be one of '<=', '>=' or '='."

RECURSIVE AddConstraintsLoop(_, _, _, _, _, _)
\* The loop of add_constraints over the rows of the pivoted matrix, in
\* ascending constraint id, from the i-th id, on the native constraints mc.
AddConstraintsLoop(matrix, row_ids, i, rhs, enq_type, mc) ==
    IF i > Len(row_ids)
    THEN [mip_constrs |-> mc, raised |-> NoError]
    ELSE LET id == row_ids[i]
             column_ids_in_constraint == SortedSeq(DOMAIN matrix[id])
             unknown == {j \in DOMAIN column_ids_in_constraint :
                             column_ids_in_constraint[j] \notin DOMAIN variables}
         IN IF unknown # {}
            THEN [mip_constrs |-> mc,
                  raised |-> KeyError(column_ids_in_constraint[
                                 CHOOSE j \in unknown : \A k \in unknown : j <= k])]
            ELSE IF id \notin DOMAIN enq_type
            THEN [mip_constrs |-> mc, raised |-> KeyError(id)]
            ELSE IF enq_type[id] \notin ValidOperators
            THEN [mip_constrs |-> mc, raised |-> ValueError(UnrecognisedType)]
            ELSE AddConstraintsLoop(matrix, row_ids, i + 1, rhs, enq_type,
                     Append(mc, [name  |-> Str(id),
                                 expr  |-> [j \in DOMAIN column_ids_in_constraint |->
                                              [var   |-> variables[column_ids_in_constraint[j]],
                                               coeff |-> matrix[id][column_ids_in_constraint[j]]]],
                                 sense |-> enq_type[id],
                                 rhs   |-> rhs[id]]))

AddConstraintsResult(constraints_lhs, constraints_type_and_rhs) ==
    LET constraint_matrix == PivotTable(constraints_lhs)
    IN AddConstraintsLoop(constraint_matrix,
                          SortedSeq(DOMAIN constraint_matrix), 1,
                          DictZip(constraints_type_and_rhs, "rhs"),
                          DictZip(constraints_type_and_rhs, "type"),
                          mip_constrs)

ConstraintNames == {mip_constrs[i].name : i \in DOMAIN mip_constrs}

LhsIds(constraints_lhs) == {constraints_lhs[i].constraint_id : i \in DOMAIN constraints_lhs}

\* The caller assigns every constraint a new id, and the model holds at most
\* MaxCons constraints.
NewConstraintIds(constraints_lhs) ==
    /\ \A c \in LhsIds(constraints_lhs) : Str(c) \notin ConstraintNames
    /\ Len(mip_constrs) + Cardinality(LhsIds(constraints_lhs)) <= MaxCons

add_constraints(constraints_lhs, constraints_type_and_rhs) ==
    /\ NewConstraintIds(constraints_lhs)
    /\ LET res == AddConstraintsResult(constraints_lhs, constraints_type_and_rhs)
       IN /\ mip_constrs' = res.mip_constrs
          /\ last' = Call("add_constraints", res.raised, <<>>, 0, <<>>)
    /\ UNCHANGED <<variables, mip_vars, mip_sos, solution>>
    /\ other' = Follow(mip_vars', mip_constrs', mip_sos')

(***************************************************************************)
(* The solver behind self.mip_model.optimize(), by exhaustive search.      *)
(*                                                                         *)
(* Bounds, right-hand sides and coefficients are integers.  Every vertex   *)
(* of the feasible region of the model, and of the region left when its    *)
(* binary variables are fixed, is the solution of a square subsystem of    *)
(* the constraint matrix and of bounds, so by Cramer's rule its            *)
(* coordinates are multiples of 1/Scale, Scale being the least common      *)
(* multiple of the nonzero minors of the matrix.  A model with bounded     *)
(* variables is infeasible or has an optimum at such a vertex, so a search *)
(* of the grid of step 1/Scale decides the status and finds the optimal    *)
(* value exactly.  Values are kept multiplied by Scale.                    *)
(***************************************************************************)
Abs(n) == IF n < 0 THEN -n ELSE n

RECURSIVE GCD(_, _)
GCD(a, b) == IF b = 0 THEN a ELSE GCD(b, a % b)

LCM(a, b) == (a * b) \div GCD(a, b)

RECURSIVE LCMOver(_)
LCMOver(S) ==
    IF S = {} THEN 1
    ELSE LET n == CHOOSE m \in S : TRUE IN LCM(n, LCMOver(S \ {n}))

\* The coefficient of native variable j in constraint c.
Coeff(c, j) ==
    LET at == {k \in DOMAIN c.expr : c.expr[k].var = j}
    IN SumOver([k \in DOMAIN c.expr |-> c.expr[k].coeff], at)

RECURSIVE Det(_, _, _)
\* The determinant of the rows `rows` and columns `cols` (sequences of equal
\* length) of the constraint matrix of mc, by expansion along the first row.
Det(mc, rows, cols) ==
    IF rows = <<>> THEN 1
    ELSE SumOver([k \in DOMAIN cols |->
                    (IF k % 2 = 1 THEN 1 ELSE -1) * Coeff(mc[rows[1]], cols[k])
                    * Det(mc, Tail(rows),
                          SubSeq(cols, 1, k - 1) \o SubSeq(cols, k + 1, Len(cols)))],
                 DOMAIN cols)

Scale(mv, mc) ==
    LET minors == {Abs(Det(mc, SortedSeq(R), SortedSeq(C))) :
                       <<R, C>> \in {rc \in (SUBSET DOMAIN mc) \X (SUBSET DOMAIN mv) :
                                        /\ rc[1] # {}
                                        /\ Cardinality(rc[1]) = Cardinality(rc[2])}}
    IN LCMOver(minors \ {0})

RECURSIVE Points(_, _, _)
\* The grid points of the box of the variables from the j-th on.
Points(mv, scale, j) ==
    IF j > Len(mv) THEN {<<>>}
    ELSE LET values == {k \in (scale * mv[j].lb)..(scale * mv[j].ub) :
                            mv[j].var_type = "B" => k % scale = 0}
         IN {<<k>> \o p : k \in values, p \in Points(mv, scale, j + 1)}

LhsValue(c, p) == SumOver([k \in DOMAIN c.expr |-> c.expr[k].coeff * p[c.expr[k].var]],
                          DOMAIN c.expr)

\* Every constraint read as an upper limit, whatever its sense.
SatisfiesAtMost(c, p, scale) == LhsValue(c, p) <= scale * c.rhs

Satisfies(c, p, scale) ==
    CASE c.sense = "<=" -> LhsValue(c, p) <= scale * c.rhs
      [] c.sense = ">=" -> LhsValue(c, p) >= scale * c.rhs
      [] c.sense = "="  -> LhsValue(c, p) = scale * c.rhs

ObjectiveAt(mv, p) == SumOver([j \in DOMAIN mv |-> mv[j].obj * p[j]], DOMAIN mv)

IsMip(mv) == \E j \in DOMAIN mv : mv[j].var_type = "B"

\* The dual values a solver may report for an optimal linear program: the
\* multipliers y (times scale) that are complementary to the optimal point p.
Duals(mv, mc, scale, p) ==
    LET bound == scale * SumOver([j \in DOMAIN mv |-> Abs(mv[j].obj)], DOMAIN mv)
        reduced(y, j) == scale * mv[j].obj
                         - SumOver([i \in DOMAIN mc |-> y[i] * Coeff(mc[i], j)], DOMAIN mc)
    IN {y \in [DOMAIN mc -> (-bound)..bound] :
          /\ \A i \in DOMAIN mc :
                /\ mc[i].sense = ">=" => y[i] >= 0
                /\ mc[i].sense = "<=" => y[i] <= 0
                /\ y[i] # 0 => LhsValue(mc[i], p) = scale * mc[i].rhs
          /\ \A j \in DOMAIN mv :
                /\ reduced(y, j) > 0 => p[j] = scale * mv[j].lb
                /\ reduced(y, j) < 0 => p[j] = scale * mv[j].ub}

\* The outcomes of one solve of the model (mv, mc): its status and, when
\* optimal, an optimal extreme point, the optimal value and the row prices
\* (none when the model has binary variables).
Solve(mv, mc) ==
    LET scale == Scale(mv, mc)
        feasible == {p \in Points(mv, scale, 1) : \A i \in DOMAIN mc : Satisfies(mc[i], p, scale)}
    IN IF feasible = {}
       THEN {[status |-> "INFEASIBLE", scale |-> scale, x |-> <<>>,
              objective_value |-> 0, pi |-> <<>>]}
       ELSE LET best == CHOOSE v \in {ObjectiveAt(mv, p) : p \in feasible} :
                            \A q \in feasible : v <= ObjectiveAt(mv, q)
                optimal == {p \in feasible : ObjectiveAt(mv, p) = best}
                extreme == {p \in optimal :
                              ~ \E q \in optimal \ {p} :
                                  [j \in DOMAIN p |-> 2 * p[j] - q[j]] \in optimal}
            IN {[status |-> "OPTIMAL", scale |-> scale, x |-> p,
                 objective_value |-> best, pi |-> y] :
                  p \in extreme,
                  y \in IF IsMip(mv) THEN {<<>>} ELSE Duals(mv, mc, scale, CHOOSE q \in optimal : TRUE)}

Status(mv, mc) == (CHOOSE s \in Solve(mv, mc) : TRUE).status

(***************************************************************************)
(* add_objective_function.                                                 *)
(***************************************************************************)
\* add_objective_function adding its costs to the coefficients the objective
\* has, no new objective.
AddObjectiveAccumulating(objective_function) ==
    LET ids == {objective_function[i].variable_id : i \in DOMAIN objective_function}
        cost(j) == SumOver([i \in DOMAIN objective_function |-> objective_function[i].cost],
                           {i \in DOMAIN objective_function :
                                variables[objective_function[i].variable_id] = j})
    IN IF \E v \in ids : v \notin DOMAIN variables
       THEN [mip_vars |-> mip_vars, raised |-> KeyError(0)]
       ELSE [mip_vars |-> [j \in DOMAIN mip_vars |-> [mip_vars[j] EXCEPT !.obj = @ + cost(j)]],
             raised |-> NoError]

\* The table sorted by variable_id and indexed by it; the objective becomes
\* the sum of cost * variable over its rows, so a variable of no row has
\* objective coefficient 0.  An id that is not in the registry raises
\* KeyError before the objective is replaced.
AddObjectiveResult(objective_function) ==
    LET ids == {objective_function[i].variable_id : i \in DOMAIN objective_function}
        cost(j) == SumOver([i \in DOMAIN objective_function |-> objective_function[i].cost],
                           {i \in DOMAIN objective_function :
                                variables[objective_function[i].variable_id] = j})
    IN IF \E v \in ids : v \notin DOMAIN variables
       THEN [mip_vars |-> mip_vars, raised |-> KeyError(0)]
       ELSE [mip_vars |-> [j \in DOMAIN mip_vars |-> [mip_vars[j] EXCEPT !.obj = cost(j)]],
             raised |-> NoError]

add_objective_function(objective_function) ==
    /\ LET res == AddObjectiveResult(objective_function)
       IN /\ mip_vars' = res.mip_vars
          /\ last' = Call("add_objective_function", res.raised, <<>>, 0, <<>>)
    /\ UNCHANGED <<variables, mip_constrs, mip_sos, solution>>
    /\ other' = Follow(mip_vars', mip_constrs', mip_sos')

(***************************************************************************)
(* find_problem_constraint and optimize.                                   *)
(***************************************************************************)
\* base_prob.copy(): a new model with a variable for every variable of the
\* original (same name, bounds, objective coefficient and type, in the same
\* order) and a constraint for every constraint (same name, terms, sense
\* and right-hand side).
CopyModel(mv, mc) ==
    [vars    |-> [j \in DOMAIN mv |->
                    [name |-> mv[j].name, lb |-> mv[j].lb, ub |-> mv[j].ub,
                     var_type |-> mv[j].var_type, obj |-> mv[j].obj]],
     constrs |-> [i \in DOMAIN mc |->
                    [name |-> mc[i].name,
                     expr |-> [k \in DOMAIN mc[i].expr |->
                                 [var |-> mc[i].expr[k].var, coeff |-> mc[i].expr[k].coeff]],
                     sense |-> mc[i].sense, rhs |-> mc[i].rhs]]]

\* test_prob.remove(c) for the constraints c of test_prob named con.
RemoveNamed(mc, con) == SelectSeq(mc, LAMBDA c : c.name # con)

RECURSIVE FindLoop(_, _, _, _, _)
\* The loop of find_problem_constraint over the names of the constraints of
\* base_prob, from the i-th, with cons the names appended so far and solves
\* the solves made so far.
FindLoop(names, i, test_prob, cons, solves) ==
    IF i > Len(names)
    THEN [con_index |-> <<>>, solves |-> solves, test_prob |-> test_prob]
    ELSE LET removed == [test_prob EXCEPT !.constrs = RemoveNamed(@, names[i])]
             status == Status(removed.vars, removed.constrs)
         IN IF status = "OPTIMAL"
            THEN [con_index |-> Append(cons, names[i]), solves |-> solves + 1,
                  test_prob |-> removed]
            ELSE FindLoop(names, i + 1, removed, Append(cons, names[i]), solves + 1)

\* The search made on base_prob itself instead of a copy of it.
FindInPlace(mv, mc) ==
    LET found == FindLoop([i \in DOMAIN mc |-> mc[i].name], 1,
                          [vars |-> mv, constrs |-> mc], <<>>, 0)
    IN [con_index |-> found.con_index, solves |-> found.solves,
        base_prob |-> found.test_prob, test_prob |-> found.test_prob]

\* The search that stops at the first constraint whose removal alone, the
\* earlier ones put back, restores optimality.
FindSingle(mv, mc) ==
    LET hits == {i \in DOMAIN mc :
                    Status(mv, SubSeq(mc, 1, i - 1) \o SubSeq(mc, i + 1, Len(mc))) = "OPTIMAL"}
        first == CHOOSE i \in hits : \A k \in hits : i <= k
    IN [con_index |-> IF hits = {} THEN <<>> ELSE <<mc[first].name>>,
        solves |-> IF hits = {} THEN Len(mc) ELSE first,
        base_prob |-> [vars |-> mv, constrs |-> mc],
        test_prob |-> [vars |-> mv, constrs |-> mc]]

\* find_problem_constraint(base_prob): the names found, the solves made, and
\* the two models as the search leaves them.
find_problem_constraint(mv, mc) ==
    LET found == FindLoop([i \in DOMAIN mc |-> mc[i].name], 1, CopyModel(mv, mc), <<>>, 0)
    IN [con_index |-> found.con_index, solves |-> found.solves,
        base_prob |-> [vars |-> mv, constrs |-> mc], test_prob |-> found.test_prob]

Infeasible == "Linear program infeasible"

Attempting == "Model infeasible attempting to find problem constraint."

Removing == "Couldn't find an optimal solution, but removing con {} fixed INFEASIBLITY"

\* print(text.format(value)): a line of standard output.
Printed(text, value) == [text |-> text, value |-> value]

\* optimize() without lines 493-495: it fails without running the diagnoser.
OptimizeWithoutDiagnosis ==
    {[solution |-> s, mip_vars |-> mip_vars, mip_constrs |-> mip_constrs,
      call |-> IF s.status # "OPTIMAL"
               THEN Call("optimize", ValueError(Infeasible), <<>>, 1, <<>>)
               ELSE Call("optimize", NoError, <<>>, 1, <<>>)] :
        s \in Solve(mip_vars, mip_constrs)}

\* The outcomes of optimize(): one for every outcome of the solve.
OptimizeResults ==
    {IF s.status # "OPTIMAL"
     THEN LET found == find_problem_constraint(mip_vars, mip_constrs)
          IN [solution |-> s, mip_vars |-> found.base_prob.vars,
              mip_constrs |-> found.base_prob.constrs,
              call |-> Call("optimize", ValueError(Infeasible), <<>>, 1 + found.solves,
                            <<Printed(Attempting, <<>>), Printed(Removing, found.con_index)>>)]
     ELSE [solution |-> s, mip_vars |-> mip_vars, mip_constrs |-> mip_constrs,
           call |-> Call("optimize", NoError, <<>>, 1, <<>>)] :
        s \in Solve(mip_vars, mip_constrs)}

optimize ==
    /\ \E res \in OptimizeResults :
          /\ solution' = res.solution
          /\ mip_vars' = res.mip_vars
          /\ mip_constrs' = res.mip_constrs
          /\ last' = res.call
    /\ UNCHANGED <<variables, mip_sos>>
    /\ other' = Follow(mip_vars', mip_constrs', mip_sos')

(***************************************************************************)
(* price_constraints.                                                      *)
(***************************************************************************)
\* self.mip_model.constr_by_name(name): the position of the first constraint
\* of that name, 0 (None) when there is none.
ConstrByName(mc, name) ==
    IF \E i \in DOMAIN mc : mc[i].name = name
    THEN CHOOSE i \in DOMAIN mc : mc[i].name = name /\ \A k \in 1..(i - 1) : mc[k].name # name
    ELSE 0

AttributeError == <<[type |-> "AttributeError", args |-> <<>>]>>

\* constraint.pi: the row price the last solve left for the constraint at
\* position i, in a one-element sequence; the empty sequence (None) when the
\* last solve left none.
Pi(i) == IF i \in DOMAIN solution.pi THEN <<solution.pi[i]>> ELSE <<>>

RECURSIVE PriceLoop(_, _, _)
\* The loop of price_constraints over the ids, from the k-th, on the dict costs.
PriceLoop(ids, k, costs) ==
    IF k > Len(ids)
    THEN [ret |-> costs, raised |-> NoError]
    ELSE LET i == ConstrByName(mip_constrs, Str(ids[k]))
         IN IF i = 0
            THEN [ret |-> <<>>, raised |-> AttributeError]
            ELSE PriceLoop(ids, k + 1, (ids[k] :> Pi(i)) @@ costs)

RECURSIVE PerturbLoop(_, _, _, _)
\* Pricing by perturbation that does not put the right-hand side back: for
\* each id, add 1 to the right-hand side, solve again, and take the change
\* of the optimal value.
PerturbLoop(ids, k, mc, costs) ==
    IF k > Len(ids)
    THEN [mip_constrs |-> mc, ret |-> costs]
    ELSE LET i == ConstrByName(mc, Str(ids[k]))
             bumped == IF i = 0 THEN mc ELSE [mc EXCEPT ![i].rhs = @ + 1]
             again == CHOOSE r \in Solve(mip_vars, bumped) : TRUE
         IN PerturbLoop(ids, k + 1, bumped,
                        (ids[k] :> <<again.objective_value - solution.objective_value>>) @@ costs)

PriceWithoutRestore(constraint_ids_to_price) ==
    LET res == PerturbLoop(constraint_ids_to_price, 1, mip_constrs, <<>>)
    IN [mip_constrs |-> res.mip_constrs, solution |-> solution,
        call |-> Call("price_constraints", NoError, res.ret,
                      Len(constraint_ids_to_price), <<>>)]

\* price_constraints: it reads the row prices the last solve left and makes
\* no solve, so the model and the solution stay as they are.
PriceConstraintsResult(constraint_ids_to_price) ==
    LET res == PriceLoop(constraint_ids_to_price, 1, <<>>)
    IN [mip_constrs |-> mip_constrs, solution |-> solution,
        call |-> Call("price_constraints", res.raised, res.ret, 0, <<>>)]

price_constraints(constraint_ids_to_price) ==
    /\ LET res == PriceConstraintsResult(constraint_ids_to_price)
       IN /\ mip_constrs' = res.mip_constrs
          /\ solution' = res.solution
          /\ last' = res.call
    /\ UNCHANGED <<variables, mip_vars, mip_sos>>
    /\ other' = Follow(mip_vars', mip_constrs', mip_sos')

(***************************************************************************)
(* get_optimal_values_of_decision_variables.                               *)
(***************************************************************************)
\* self.mip_model.var_by_name(name): the position of the first variable of
\* that name, 0 (None) when there is none.
VarByName(mv, name) ==
    IF \E j \in DOMAIN mv : mv[j].name = name
    THEN CHOOSE j \in DOMAIN mv : mv[j].name = name /\ \A k \in 1..(j - 1) : mv[k].name # name
    ELSE 0

\* What get_optimal_values_of_decision_variables raises for the ids of
\* variable_definitions: None, which var_by_name gives for a name the model
\* does not have, has no attribute x.
GetOptimalValuesRaised(ids) ==
    IF \E k \in DOMAIN ids : VarByName(mip_vars, Str(ids[k])) = 0
    THEN AttributeError
    ELSE NoError

(***************************************************************************)
(* The tables the assembly calls are given.                                *)
(***************************************************************************)
VarRows(bounds) ==
    {[variable_id |-> v, lower_bound |-> b[1], upper_bound |-> b[2], type |-> t] :
        v \in VarIds, b \in bounds, t \in TypeNames}

LhsRows(coefficients) ==
    [constraint_id : ConIds, variable_id : VarIds, coefficient : coefficients]

RhsRows(operators, values) ==
    [constraint_id : ConIds, type : operators, rhs : values]

NonEmpty(tables) == {t \in tables : t # <<>>}

NoSolution == [status |-> "UNSOLVED", scale |-> 1, x |-> <<>>,
               objective_value |-> 0, pi |-> <<>>]

NoArgs == <<>>

(***************************************************************************)
(* update_rhs and disable_variables.                                       *)
(***************************************************************************)
\* update_rhs: None, which constr_by_name gives for a name the model does
\* not have, has no attribute rhs.
UpdateRhsOverwriting(constraint_id, violation_degree) ==
    LET i == ConstrByName(mip_constrs, Str(constraint_id))
    IN IF i = 0
       THEN [mip_constrs |-> mip_constrs, raised |-> AttributeError]
       ELSE [mip_constrs |-> [k \in DOMAIN mip_constrs |->
                                 [mip_constrs[k] EXCEPT !.rhs = violation_degree]],
             raised |-> NoError]

UpdateRhsResult(constraint_id, violation_degree) ==
    LET i == ConstrByName(mip_constrs, Str(constraint_id))
    IN IF i = 0
       THEN [mip_constrs |-> mip_constrs, raised |-> AttributeError]
       ELSE [mip_constrs |-> [mip_constrs EXCEPT ![i].rhs = @ + violation_degree],
             raised |-> NoError]

update_rhs(constraint_id, violation_degree) ==
    /\ LET res == UpdateRhsResult(constraint_id, violation_degree)
       IN /\ \A i \in DOMAIN res.mip_constrs : res.mip_constrs[i].rhs \in 0..MaxRhs
          /\ mip_constrs' = res.mip_constrs
          /\ last' = Call("update_rhs", res.raised, <<>>, 0, <<>>)
    /\ UNCHANGED <<variables, mip_vars, mip_sos, solution>>
    /\ other' = Follow(mip_vars', mip_constrs', mip_sos')

RECURSIVE DisableVariablesLoop(_, _, _)
\* The loop of disable_variables over the ids from the i-th on: the variable
\* of that name gets the bounds 0 and 0; None has no attribute lb.
DisableVariablesLoop(ids, i, mv) ==
    IF i > Len(ids) THEN [mip_vars |-> mv, raised |-> NoError]
    ELSE LET j == VarByName(mv, Str(ids[i]))
         IN IF j = 0 THEN [mip_vars |-> mv, raised |-> AttributeError]
            ELSE DisableVariablesLoop(ids, i + 1, [mv EXCEPT ![j].lb = 0, ![j].ub = 0])

disable_variables(ids) ==
    /\ LET res == DisableVariablesLoop(ids, 1, mip_vars)
       IN /\ mip_vars' = res.mip_vars
          /\ last' = Call("disable_variables", res.raised, <<>>, 0, <<>>)
    /\ UNCHANGED <<variables, mip_constrs, mip_sos, solution>>
    /\ other' = Follow(mip_vars', mip_constrs', mip_sos')

(***************************************************************************)
(* copy.  The state variables are the interface object the caller makes    *)
(* its next call on; `other` holds the second object: its registry, its    *)
(* native model, whether that model is the same Model object as this       *)
(* one's, and which of the two objects, the original or the copy, is the   *)
(* one the caller is calling.                                              *)
(***************************************************************************)
InvalidLiteral == "invalid literal for int() with base 10"

\* int(name): the number a decimal name spells, a ValueError for the name
\* of an unnamed variable.
IsInt(name) == \E d \in DOMAIN Digits : Digits[d] = name

IntOf(name) == (CHOOSE d \in DOMAIN Digits : Digits[d] = name) - 1

\* The registry copy() builds over the variables mv of the new model: the
\* last variable of a name is the one its id keeps.
NamesToHandles(mv) ==
    [id \in {IntOf(mv[j].name) : j \in DOMAIN mv} |->
        CHOOSE j \in DOMAIN mv :
            /\ mv[j].name = Str(id)
            /\ \A k \in DOMAIN mv : mv[k].name = Str(id) => k <= j]

\* copy() with model_copy.mip_model = self.mip_model, no new Model.
CopySharingModel ==
    IF \E j \in DOMAIN mip_vars : ~IsInt(mip_vars[j].name)
    THEN [raised |-> ValueError(InvalidLiteral), other |-> NoCopy]
    ELSE [raised |-> NoError,
          other  |-> [variables |-> NamesToHandles(mip_vars), mip_vars |-> mip_vars,
                      mip_constrs |-> mip_constrs, mip_sos |-> mip_sos,
                      solution |-> solution, shared |-> TRUE, receiver |-> "original"]]

\* copy(): a new interface whose mip_model is self.mip_model.copy(), a new
\* Model with the variables and the constraints of this one re-added, and
\* whose registry is read back from the names of the new variables.
CopyResult ==
    LET model == CopyModel(mip_vars, mip_constrs)
    IN IF \E j \in DOMAIN model.vars : ~IsInt(model.vars[j].name)
       THEN [raised |-> ValueError(InvalidLiteral), other |-> NoCopy]
       ELSE [raised |-> NoError,
             other  |-> [variables |-> NamesToHandles(model.vars), mip_vars |-> model.vars,
                         mip_constrs |-> model.constrs, mip_sos |-> <<>>,
                         solution |-> NoSolution, shared |-> FALSE,
                         receiver |-> "original"]]

copy ==
    /\ other = NoCopy
    /\ other' = CopyResult.other
    /\ last' = Call("copy", CopyResult.raised, <<>>, 0, <<>>)
    /\ UNCHANGED <<variables, mip_vars, mip_constrs, mip_sos, solution>>

\* The caller turns to the other of the two objects for its next calls.
Turn ==
    /\ other # NoCopy
    /\ variables' = other.variables
    /\ mip_vars' = other.mip_vars
    /\ mip_constrs' = other.mip_constrs
    /\ mip_sos' = other.mip_sos
    /\ solution' = other.solution
    /\ other' = [variables |-> variables, mip_vars |-> mip_vars, mip_constrs |-> mip_constrs,
                 mip_sos |-> mip_sos, solution |-> solution, shared |-> other.shared,
                 receiver |-> IF other.receiver = "original" THEN "copy" ELSE "original"]
    /\ UNCHANGED last

(***************************************************************************)
(* create_lhs.  A table is the sequence of its rows; the two tables handed *)
(* to the function are the caller's objects, so its outcome tells what the *)
(* call leaves in them beside what it returns.                             *)
(***************************************************************************)
\* The rows left and right agree on every column of `on`.
Agree(left, right, on) == \A k \in DOMAIN on : left[on[k]] = right[on[k]]

RECURSIVE Merge(_, _, _, _, _)
\* pd.merge(left, right, 'inner', on=on), from the pair of row i of left and
\* row j of right on: a row for every pair of rows that agree on the columns
\* of `on`, in the order of left; the coefficient columns of the two tables
\* become coefficient_x and coefficient_y.
Merge(left, right, on, i, j) ==
    IF i > Len(left) THEN <<>>
    ELSE IF j > Len(right) THEN Merge(left, right, on, i + 1, 1)
    ELSE (IF Agree(left[i], right[j], on)
          THEN <<[constraint_id |-> left[i].constraint_id,
                  variable_id   |-> right[j].variable_id,
                  coefficient_x |-> left[i].coefficient,
                  coefficient_y |-> right[j].coefficient]>>
          ELSE <<>>) \o Merge(left, right, on, i, j + 1)

\* create_lhs taking the coefficient of the variable's row for the product.
CreateLhsOverwriting(constraints, decision_variables, join_columns) ==
    LET merged == Merge(constraints, decision_variables, join_columns, 1, 1)
    IN [lhs |-> [r \in DOMAIN merged |->
                    [constraint_id |-> merged[r].constraint_id,
                     variable_id   |-> merged[r].variable_id,
                     coefficient   |-> merged[r].coefficient_y]],
        constraints |-> constraints,
        decision_variables |-> decision_variables]

\* The merged table is a new one, bound to the local name constraints; the
\* product column is added to it and three of its columns are returned.
CreateLhsResult(constraints, decision_variables, join_columns) ==
    LET merged == Merge(constraints, decision_variables, join_columns, 1, 1)
    IN [lhs |-> [r \in DOMAIN merged |->
                    [constraint_id |-> merged[r].constraint_id,
                     variable_id   |-> merged[r].variable_id,
                     coefficient   |-> merged[r].coefficient_x * merged[r].coefficient_y]],
        constraints |-> constraints,
        decision_variables |-> decision_variables]

\* The call on the tables args holds; args holds them as the call leaves them.
create_lhs ==
    /\ DOMAIN args = {"constraints", "decision_variables", "join_columns"}
    /\ LET res == CreateLhsResult(args.constraints, args.decision_variables, args.join_columns)
       IN /\ args' = [args EXCEPT !.constraints = res.constraints,
                                  !.decision_variables = res.decision_variables]
          /\ last' = Call("create_lhs", NoError, res.lhs, 0, <<>>)
    /\ UNCHANGED <<variables, mip_vars, mip_constrs, mip_sos, solution, other>>

Init ==
    /\ variables = <<>>
    /\ mip_vars = <<>>
    /\ mip_constrs = <<>>
    /\ mip_sos = <<>>
    /\ solution = NoSolution
    /\ last = Call("__init__", NoError, <<>>, 0, <<>>)
    /\ args = NoArgs
    /\ other = NoCopy

Next ==
    \/ \E rows \in NonEmpty(SeqsUpTo(VarRows({<<0, 2>>}), MaxRows)) :
           add_variables(rows) /\ UNCHANGED args
    \/ \E lhs \in {t \in NonEmpty(SeqsUpTo(LhsRows(Coefficients), MaxRows)) :
                        NewConstraintIds(t)} :
           \E rhs \in SeqsUpTo(RhsRows({"<=", "=", "<"}, {1}), MaxRows) :
               add_constraints(lhs, rhs) /\ UNCHANGED args

Spec == Init /\ [][Next]_vars

(***************************************************************************)
(* Scenarios: the calls a caller makes in the order nempy's market makes   *)
(* them, each at most once, with the tables of each call recorded.         *)
(***************************************************************************)
Rank(op) ==
    CASE op = "__init__"               -> 0
      [] op = "add_variables"          -> 1
      [] op = "add_objective_function" -> 2
      [] op = "add_constraints"        -> 3
      [] op = "optimize"               -> 4
      [] op = "price_constraints"      -> 5

Before(op) == Rank(last.op) < Rank(op)

\* Tables whose rows have distinct, ascending keys.
Ascending(tables, key) ==
    {t \in tables : \A i, j \in DOMAIN t : i < j => t[i][key] < t[j][key]}

\* Assembly: add_variables, then add_constraints.
AssembleVarBatches ==
    NonEmpty(SeqsUpTo({r \in VarRows({<<0, 2>>}) : r.type # "binary"}, Cardinality(VarIds)))

AssembleLhsTables == NonEmpty(SeqsUpTo(LhsRows(Coefficients), MaxRows))

AssembleRhsTables == SeqsUpTo(RhsRows({"<=", "<"}, {1}), Cardinality(ConIds))

NextAssemble ==
    \/ /\ Before("add_variables")
       /\ \E rows \in AssembleVarBatches :
             add_variables(rows) /\ args' = [decision_variables |-> rows]
    \/ /\ last.op = "add_variables"
       /\ \E lhs \in AssembleLhsTables, rhs \in AssembleRhsTables :
             /\ add_constraints(lhs, rhs)
             /\ args' = [constraints_lhs |-> lhs, constraints_type_and_rhs |-> rhs]

SpecAssemble == Init /\ [][NextAssemble]_vars

\* Solving: add_variables, add_objective_function, add_constraints, optimize,
\* price_constraints, any of them left out.
SolveVarBatches ==
    Ascending(NonEmpty(SeqsUpTo({r \in VarRows(BoundPairs) : r.type # "integer"},
                                Cardinality(VarIds))), "variable_id")

CostTables ==
    Ascending(NonEmpty(SeqsUpTo([variable_id : VarIds, cost : {1, 2}], Cardinality(VarIds))),
              "variable_id")

SolveLhsTables == NonEmpty(SeqsUpTo(LhsRows({1}), MaxRows))

SolveRhsTables ==
    Ascending(NonEmpty(SeqsUpTo(RhsRows(ValidOperators, {3}), Cardinality(ConIds))),
              "constraint_id")

PriceLists == SeqsUpTo(ConIds, MaxRows)

NextSolve ==
    \/ /\ Before("add_variables")
       /\ \E rows \in SolveVarBatches : add_variables(rows)
       /\ UNCHANGED args
    \/ /\ Before("add_objective_function")
       /\ \E costs \in CostTables : add_objective_function(costs)
       /\ UNCHANGED args
    \/ /\ Before("add_constraints")
       /\ \E lhs \in SolveLhsTables, rhs \in SolveRhsTables : add_constraints(lhs, rhs)
       /\ UNCHANGED args
    \/ /\ Before("optimize")
       /\ optimize
       /\ UNCHANGED args
    \/ /\ Before("price_constraints")
       /\ \E ids \in PriceLists :
             price_constraints(ids) /\ args' = [constraint_ids_to_price |-> ids]

SpecSolve == Init /\ [][NextSolve]_vars

\* The registry: add_variables and remove_variables in any order.
RegistryVarBatches ==
    NonEmpty(SeqsUpTo({r \in VarRows(BoundPairs) : r.type # "integer"}, MaxRows))

RemoveLists == NonEmpty(SeqsUpTo(VarIds, MaxRows))

NextRegistry ==
    \/ \E rows \in RegistryVarBatches :
          add_variables(rows) /\ args' = [decision_variables |-> rows]
    \/ \E ids \in RemoveLists :
          remove_variables(ids) /\ args' = [variables_to_remove |-> ids]

SpecRegistry == Init /\ [][NextRegistry]_vars

\* Ordered sets: one add_variables, then add_sos_type_1 and add_sos_type_2.
SosRows == [variable_id : VarIds, sos_id : SosIds, position : Positions]

\* The position column numbers the rows of the table.
SosTables ==
    {t \in NonEmpty(SeqsUpTo(SosRows, MaxRows)) : \A i \in DOMAIN t : t[i].position = i - 1}

NextSos ==
    \/ /\ last.op = "__init__"
       /\ \E rows \in AssembleVarBatches :
             add_variables(rows) /\ args' = [decision_variables |-> rows]
    \/ /\ last.op # "__init__"
       /\ \E t \in SosTables :
             add_sos_type_1(t) /\ args' = [sos_variables |-> t]
    \/ /\ last.op # "__init__"
       /\ \E t \in SosTables :
             /\ add_sos_type_2(t, "sos_id", "position")
             /\ args' = [sos_variables |-> t]

SpecSos == Init /\ [][NextSos]_vars

\* Copies: a model is assembled, copied, and the caller then changes either
\* of the two objects; args lists the calls made since the copy.
CopyVarBatches ==
    NonEmpty(SeqsUpTo({r \in VarRows({<<0, 2>>}) : r.type # "integer"}, MaxRows))

CopyLhsTables == {<<r>> : r \in LhsRows({1})}

CopyRhsTables == {<<r>> : r \in RhsRows({"<="}, {3})}

CopySosTables == {t \in SosTables : Len(t) = 1 /\ t[1].sos_id = 1}

OneRowBatches == {<<r>> : r \in {q \in VarRows({<<0, 2>>}) : q.type = "continuous"}}

OneIdLists == {<<v>> : v \in VarIds}

NextCopy ==
    \/ /\ last.op = "__init__"
       /\ \E rows \in CopyVarBatches : add_variables(rows)
       /\ UNCHANGED args
    \/ /\ last.op = "add_variables" /\ other = NoCopy
       /\ \E lhs \in CopyLhsTables, rhs \in CopyRhsTables : add_constraints(lhs, rhs)
       /\ UNCHANGED args
    \/ /\ last.op \in {"add_variables", "add_constraints"} /\ other = NoCopy
       /\ \E t \in CopySosTables : add_sos_type_1(t)
       /\ UNCHANGED args
    \/ /\ last.op \notin {"__init__", "copy"}
       /\ copy
       /\ UNCHANGED args
    \/ /\ other # NoCopy /\ Len(args) < MaxCallsAfterCopy
       /\ \/ \E rows \in OneRowBatches : add_variables(rows)
          \/ \E ids \in OneIdLists : remove_variables(ids)
          \/ \E ids \in OneIdLists : disable_variables(ids)
          \/ \E c \in ConIds, d \in {-1, 1} : update_rhs(c, d)
       /\ args' = Append(args, last'.op)
    \/ Turn /\ UNCHANGED args

SpecCopy == Init /\ [][NextCopy]_vars

\* Objectives: add_variables, then add_objective_function time after time;
\* args lists the cost tables of the calls.  The rows of a cost table have
\* distinct ids, in any order.
ObjectiveTables ==
    {t \in NonEmpty(SeqsUpTo([variable_id : VarIds, cost : {1, 2}], Cardinality(VarIds))) :
        \A i, j \in DOMAIN t : i # j => t[i].variable_id # t[j].variable_id}

NextObjective ==
    \/ /\ last.op = "__init__"
       /\ \E rows \in SolveVarBatches : add_variables(rows)
       /\ UNCHANGED args
    \/ /\ last.op # "__init__" /\ Len(args) < MaxObjectives
       /\ \E costs \in ObjectiveTables :
             add_objective_function(costs) /\ args' = Append(args, costs)

SpecObjective == Init /\ [][NextObjective]_vars

\* Right-hand sides: a model is assembled, then update_rhs time after time.
RhsVarBatches == Ascending(AssembleVarBatches, "variable_id")

Deltas == {-1, 1, 2}

NextRhs ==
    \/ /\ last.op = "__init__"
       /\ \E rows \in RhsVarBatches : add_variables(rows)
       /\ UNCHANGED args
    \/ /\ last.op = "add_variables"
       /\ \E lhs \in SolveLhsTables, rhs \in SolveRhsTables : add_constraints(lhs, rhs)
       /\ UNCHANGED args
    \/ /\ last.op \in {"add_constraints", "update_rhs"}
       /\ \E c \in ConIds, d \in Deltas :
             /\ update_rhs(c, d)
             /\ args' = [constraint_id |-> c, violation_degree |-> d]

SpecRhs == Init /\ [][NextRhs]_vars

\* Dispatch: six variables, costs for five of them and one constraint over
\* four, then optimize; the rows of the cost table and of the left-hand side
\* come in any order.
DispatchVariables ==
    <<[variable_id |-> 0, lower_bound |-> 0, upper_bound |-> 5, type |-> "continuous"],
      [variable_id |-> 1, lower_bound |-> 0, upper_bound |-> 5, type |-> "continuous"],
      [variable_id |-> 2, lower_bound |-> 0, upper_bound |-> 10, type |-> "continuous"],
      [variable_id |-> 3, lower_bound |-> 0, upper_bound |-> 10, type |-> "continuous"],
      [variable_id |-> 4, lower_bound |-> 0, upper_bound |-> 5, type |-> "continuous"],
      [variable_id |-> 5, lower_bound |-> 0, upper_bound |-> 5, type |-> "continuous"]>>

DispatchCosts ==
    {[variable_id |-> 0, cost |-> 1], [variable_id |-> 1, cost |-> 2],
     [variable_id |-> 3, cost |-> -1], [variable_id |-> 4, cost |-> 5],
     [variable_id |-> 5, cost |-> 0]}

DispatchLhs == {[constraint_id |-> 1, variable_id |-> v, coefficient |-> 1] : v \in {0, 1, 3, 4}}

DispatchRhs == <<[constraint_id |-> 1, type |-> "=", rhs |-> 20]>>

\* The tables that hold each row of the set `rows` once.
Orderings(rows) ==
    {t \in [1..Cardinality(rows) -> rows] : \A i, j \in DOMAIN t : i # j => t[i] # t[j]}

NextDispatch ==
    \/ /\ last.op = "__init__"
       /\ add_variables(DispatchVariables)
       /\ UNCHANGED args
    \/ /\ last.op = "add_variables"
       /\ \E costs \in Orderings(DispatchCosts) :
             add_objective_function(costs) /\ args' = [objective_function |-> costs]
    \/ /\ last.op = "add_objective_function"
       /\ \E lhs \in Orderings(DispatchLhs) : add_constraints(lhs, DispatchRhs)
       /\ args' = NoArgs
    \/ /\ last.op = "add_constraints"
       /\ optimize
       /\ UNCHANGED args

SpecDispatch == Init /\ [][NextDispatch]_vars

\* Joins: create_lhs on every pair of small tables whose rows have distinct,
\* ascending ids, joined on one or both of their category columns.
Regions == {"NSW", "VIC"}

Services == {"energy", "raise"}

ConstraintDefinitions ==
    Ascending(SeqsUpTo([constraint_id : ConIds, region : Regions, service : Services,
                        coefficient : Coefficients], Cardinality(ConIds)),
              "constraint_id")

VariableDefinitions ==
    Ascending(SeqsUpTo([variable_id : VarIds, region : Regions, service : Services,
                        coefficient : Coefficients], Cardinality(VarIds)),
              "variable_id")

JoinColumns == {<<"region">>, <<"service">>, <<"region", "service">>}

InitLhs ==
    /\ variables = <<>>
    /\ mip_vars = <<>>
    /\ mip_constrs = <<>>
    /\ mip_sos = <<>>
    /\ solution = NoSolution
    /\ last = Call("__init__", NoError, <<>>, 0, <<>>)
    /\ args \in [constraints : ConstraintDefinitions,
                 decision_variables : VariableDefinitions,
                 join_columns : JoinColumns]
    /\ other = NoCopy

NextLhs == create_lhs

SpecLhs == InitLhs /\ [][NextLhs]_vars

\* The life of the registry: variables are added, removed, disabled and put
\* into ordered sets in any order, a row at a time.
LiveBatches == {<<r>> : r \in {q \in VarRows({<<0, 2>>}) : q.type # "integer"}}

NextLive ==
    \/ /\ \E rows \in LiveBatches : add_variables(rows)
       /\ UNCHANGED args
    \/ /\ \E ids \in OneIdLists : remove_variables(ids)
       /\ UNCHANGED args
    \/ /\ \E ids \in OneIdLists : disable_variables(ids)
       /\ UNCHANGED args
    \/ /\ Len(mip_sos) < MaxSosCalls
       /\ \E t \in CopySosTables : add_sos_type_1(t)
       /\ UNCHANGED args
    \/ /\ Len(mip_sos) < MaxSosCalls
       /\ \E t \in CopySosTables : add_sos_type_2(t, "sos_id", "position")
       /\ UNCHANGED args

SpecLive == Init /\ [][NextLive]_vars

(***************************************************************************)
(* The claims.                                                             *)
(***************************************************************************)
Failed == last.raised # NoError

\* The names of the first k constraints of the model, in model order.
FirstNames(k) == [i \in 1..k |-> mip_constrs[i].name]

\* The k for which the model without its first k constraints is optimal.
RestoringPrefixes ==
    {k \in 1..Len(mip_constrs) :
        Status(mip_vars, SubSeq(mip_constrs, k + 1, Len(mip_constrs))) = "OPTIMAL"}

\* What the second line optimize() prints holds: the diagnoser's result.
DiagnosedSequence == last.printed[2].value

----------------------------------------------------------------------------
----------------------------------------------------------------------------
\* C2: on a non-optimal model with constraints c1..cn, the diagnoser returns
\* [c1..ck] for the smallest k such that the model without c1..ck is optimal,
\* after k solves, and the empty list, after n solves, when there is no such
\* k (so never more than n solves).
C2_SmallestRestoringPrefix ==
    (last.op = "optimize" /\ Failed) =>
        LET n == Len(mip_constrs)
            resolves == last.solves - 1
        IN /\ resolves <= n
           /\ RestoringPrefixes = {} => DiagnosedSequence = <<>> /\ resolves = n
           /\ RestoringPrefixes # {} =>
                 LET k == CHOOSE m \in RestoringPrefixes : \A j \in RestoringPrefixes : m <= j
                 IN DiagnosedSequence = FirstNames(k) /\ resolves = k

\* The diagnoser returned both constraints of a model: removing the first
\* alone did not restore optimality.
C2_Witness ==
    /\ last.op = "optimize"
    /\ Failed
    /\ Len(mip_constrs) = 2
    /\ DiagnosedSequence = FirstNames(2)

----------------------------------------------------------------------------
\* C3: a failed optimize() leaves the caller's model as it was: the same
\* variables, bounds, constraints and right-hand sides, and the same registry.
C3_FailedOptimizeKeepsModel ==
    [][(last'.op = "optimize" /\ last'.raised # NoError) =>
          /\ mip_vars' = mip_vars
          /\ mip_constrs' = mip_constrs
          /\ variables' = variables]_vars

\* A failed optimize() whose diagnoser deleted constraints and solved again.
C3_Witness ==
    /\ last.op = "optimize"
    /\ Failed
    /\ last.solves > 1
    /\ mip_constrs # <<>>

----------------------------------------------------------------------------
\* The model with 1 added to the right-hand side of the constraint named id.
Perturbed(id) ==
    [mip_constrs EXCEPT ![ConstrByName(mip_constrs, Str(id))].rhs = @ + 1]

\* C4, as stated: on an optimally solved model, price_constraints makes one
\* solve per priced constraint, and the price of each id is the optimal value
\* of the model with 1 added to that constraint's right-hand side minus the
\* optimal value of the unperturbed solve.
C4_PriceIsObjectiveChange ==
    LET ids == args.constraint_ids_to_price
    IN (/\ last.op = "price_constraints"
        /\ solution.status = "OPTIMAL"
        /\ \A k \in DOMAIN ids : ConstrByName(mip_constrs, Str(ids[k])) # 0) =>
            /\ last.solves = Len(ids)
            /\ \A k \in DOMAIN ids :
                 \A again \in Solve(mip_vars, Perturbed(ids[k])) :
                    again.status = "OPTIMAL" =>
                        /\ ~Failed
                        /\ last.ret[ids[k]] =
                               <<again.objective_value - solution.objective_value>>

----------------------------------------------------------------------------
\* C5: price_constraints on an optimally solved model leaves the variable
\* values, the right-hand sides and the rest of the model as it found them.
C5_PricingKeepsModel ==
    [][(last'.op = "price_constraints" /\ solution.status = "OPTIMAL") =>
          /\ solution' = solution
          /\ mip_constrs' = mip_constrs
          /\ mip_vars' = mip_vars
          /\ variables' = variables]_vars

\* Two constraints of an optimally solved model were priced.
C5_Witness ==
    /\ last.op = "price_constraints"
    /\ ~Failed
    /\ solution.status = "OPTIMAL"
    /\ Len(args.constraint_ids_to_price) = 2
    /\ DOMAIN last.ret = {1, 2}

----------------------------------------------------------------------------
BatchVariableNames == {Str(args.decision_variables[i].variable_id) :
                          i \in DOMAIN args.decision_variables}

BatchConstraintNames == {Str(args.constraints_lhs[i].constraint_id) :
                            i \in DOMAIN args.constraints_lhs}

\* C6, as stated: a failed add_variables or add_constraints leaves none of
\* its batch's variables or constraints in the model.
C6_AllOrNothing ==
    /\ (last.op = "add_variables" /\ Failed) =>
           \A j \in DOMAIN mip_vars : mip_vars[j].name \notin BatchVariableNames
    /\ (last.op = "add_constraints" /\ Failed) =>
           \A i \in DOMAIN mip_constrs : mip_constrs[i].name \notin BatchConstraintNames

----------------------------------------------------------------------------
RhsTableIds == {args.constraints_type_and_rhs[i].constraint_id :
                   i \in DOMAIN args.constraints_type_and_rhs}

\* C7, as stated: after an add_constraints whose type/rhs table has only
\* valid operators, the model holds one constraint for every constraint id
\* of that table, also for an id that has no row in the left-hand-side table.
C7_EveryRhsIdAssembled ==
    (/\ last.op = "add_constraints"
     /\ ~Failed
     /\ \A i \in DOMAIN args.constraints_type_and_rhs :
           args.constraints_type_and_rhs[i].type \in ValidOperators) =>
        \A c \in RhsTableIds :
            Cardinality({i \in DOMAIN mip_constrs : mip_constrs[i].name = Str(c)}) = 1

----------------------------------------------------------------------------
\* A defect of the batch that add_constraints reports with a KeyError: a
\* left-hand-side row of an unregistered variable, or of a constraint id
\* that the type/rhs table has no row for.
OtherDefect ==
    \E i \in DOMAIN args.constraints_lhs :
        \/ args.constraints_lhs[i].variable_id \notin DOMAIN variables
        \/ args.constraints_lhs[i].constraint_id \notin RhsTableIds

\* C8, as stated: add_constraints fails whenever a row of the type/rhs table
\* has an operator other than '<=', '>=' or '=', and with the
\* invalid-operator error when that is the batch's only defect.
C8_InvalidOperatorFails ==
    (/\ last.op = "add_constraints"
     /\ \E i \in DOMAIN args.constraints_type_and_rhs :
           args.constraints_type_and_rhs[i].type \notin ValidOperators) =>
        /\ Failed
        /\ ~OtherDefect => last.raised = ValueError(UnrecognisedType)

----------------------------------------------------------------------------
\* The rows of the left-hand-side table of constraint c and variable v.
LhsRowsOf(c, v) ==
    {i \in DOMAIN args.constraints_lhs :
        /\ args.constraints_lhs[i].constraint_id = c
        /\ args.constraints_lhs[i].variable_id = v}

\* C9: a constraint that add_constraints built has, for every variable its
\* constraint id has rows for in the left-hand-side table, exactly one term,
\* whose coefficient is the sum of the coefficients of those rows.
C9_DuplicateRowsAreSummed ==
    last.op = "add_constraints" =>
        \A i \in DOMAIN mip_constrs, c \in ConIds, v \in VarIds :
            (mip_constrs[i].name = Str(c) /\ LhsRowsOf(c, v) # {}) =>
                LET terms == {k \in DOMAIN mip_constrs[i].expr :
                                 mip_constrs[i].expr[k].var = variables[v]}
                IN /\ Cardinality(terms) = 1
                   /\ \A k \in terms :
                         mip_constrs[i].expr[k].coeff =
                             SumOver([r \in DOMAIN args.constraints_lhs |->
                                         args.constraints_lhs[r].coefficient],
                                     LhsRowsOf(c, v))

\* A constraint built from two rows of one (constraint id, variable id) pair
\* whose coefficients differ.
C9_Witness ==
    /\ last.op = "add_constraints"
    /\ ~Failed
    /\ \E i \in DOMAIN mip_constrs, c \in ConIds, v \in VarIds :
          /\ mip_constrs[i].name = Str(c)
          /\ Cardinality(LhsRowsOf(c, v)) = 2
          /\ \E r1, r2 \in LhsRowsOf(c, v) :
                args.constraints_lhs[r1].coefficient # args.constraints_lhs[r2].coefficient

----------------------------------------------------------------------------
\* C10, as stated: add_variables fails when a row's variable id is already
\* in the registry or in an earlier row of its batch, and the model never
\* holds two native variables for one id.
C10_DuplicateIdRejected ==
    last.op = "add_variables" =>
        /\ (\E i, j \in DOMAIN args.decision_variables :
               /\ i < j
               /\ args.decision_variables[i].variable_id
                      = args.decision_variables[j].variable_id) => Failed
        /\ \A i, j \in DOMAIN mip_vars : i # j => mip_vars[i].name # mip_vars[j].name

----------------------------------------------------------------------------
\* The ids of the caller's variables that the native model holds.
LiveIds == {v \in VarIds : \E j \in DOMAIN mip_vars : mip_vars[j].name = Str(v)}

\* C11, as stated: remove_variables fails with the unknown-id error when one
\* of its ids names no variable of the model, whether the id was never added
\* or an earlier remove_variables removed its variable.
C11_UnknownIdRejected ==
    [][(/\ last'.op = "remove_variables"
        /\ \E k \in DOMAIN args'.variables_to_remove :
              args'.variables_to_remove[k] \notin LiveIds) =>
          last'.raised = KeyError(0)]_vars

----------------------------------------------------------------------------
\* C12, as stated: after a remove_variables of distinct ids that name
\* variables of the model, in any order, a query of a removed id fails, the
\* model has as many variables fewer as there are ids, and every other
\* variable is still there with its name, bounds and kind.
C12_RemovalFrame ==
    [][LET ids == args'.variables_to_remove
           removed == {ids[k] : k \in DOMAIN ids}
       IN (/\ last'.op = "remove_variables"
           /\ removed \subseteq LiveIds
           /\ Cardinality(removed) = Len(ids)) =>
             /\ last'.raised = NoError
             /\ \A v \in removed : GetOptimalValuesRaised(<<v>>)' = AttributeError
             /\ Len(mip_vars') = Len(mip_vars) - Cardinality(removed)
             /\ \A j \in DOMAIN mip_vars :
                   (\A v \in removed : mip_vars[j].name # Str(v)) =>
                       \E k \in DOMAIN mip_vars' : mip_vars'[k] = mip_vars[j]
             /\ \A v \in LiveIds \ removed : GetOptimalValuesRaised(<<v>>)' = NoError]_vars

----------------------------------------------------------------------------
\* C13, as stated: after add_variables of rows with distinct ids on an empty
\* model, the registry and the native model hold as many variables as there
\* are rows, and the variable of each id has the lower bound, upper bound
\* and kind of its row.
C13_RowsRoundTrip ==
    [][LET rows == args'.decision_variables
       IN (/\ last'.op = "add_variables"
           /\ variables = <<>> /\ mip_vars = <<>>
           /\ \A i, j \in DOMAIN rows : i # j => rows[i].variable_id # rows[j].variable_id) =>
             /\ last'.raised = NoError
             /\ Cardinality(DOMAIN variables') = Len(rows)
             /\ Len(mip_vars') = Len(rows)
             /\ \A i \in DOMAIN rows :
                   LET var == mip_vars'[variables'[rows[i].variable_id]]
                   IN /\ var.name = Str(rows[i].variable_id)
                      /\ var.var_type = variable_types[rows[i].type]
                      /\ var.lb = rows[i].lower_bound
                      /\ var.ub = rows[i].upper_bound]_vars

\* C13, amended: as above for the count, the names and the kinds; a
\* continuous variable has the bounds of its row, a binary variable has the
\* bounds 0 and 1 whatever bounds its row gives.
C13_RowsRoundTripButBinaryBounds ==
    [][LET rows == args'.decision_variables
       IN (/\ last'.op = "add_variables"
           /\ variables = <<>> /\ mip_vars = <<>>
           /\ \A i, j \in DOMAIN rows : i # j => rows[i].variable_id # rows[j].variable_id) =>
             /\ last'.raised = NoError
             /\ Cardinality(DOMAIN variables') = Len(rows)
             /\ Len(mip_vars') = Len(rows)
             /\ \A i \in DOMAIN rows :
                   LET var == mip_vars'[variables'[rows[i].variable_id]]
                   IN /\ var.name = Str(rows[i].variable_id)
                      /\ var.var_type = variable_types[rows[i].type]
                      /\ rows[i].type = "continuous" =>
                            var.lb = rows[i].lower_bound /\ var.ub = rows[i].upper_bound
                      /\ rows[i].type = "binary" => var.lb = 0 /\ var.ub = 1]_vars

\* A first batch of a continuous and a binary row whose bounds are not 0, 1.
C13_Witness ==
    /\ last.op = "add_variables"
    /\ ~Failed
    /\ Len(mip_vars) = 2
    /\ DOMAIN variables = {0, 1}
    /\ \E i, j \in DOMAIN args.decision_variables :
          /\ args.decision_variables[i].type = "continuous"
          /\ args.decision_variables[j].type = "binary"
          /\ args.decision_variables[j].upper_bound # 1

----------------------------------------------------------------------------
\* C14, as stated: a model on which add_sos_type_1 and add_sos_type_2 have
\* declared at least one ordered set, in any number of calls, holds exactly
\* one marker binary variable.
C14_OneMarker ==
    mip_sos # <<>> => Cardinality(Markers(mip_vars)) = 1

----------------------------------------------------------------------------
SosCall(op) == op \in {"add_sos_type_1", "add_sos_type_2"}

\* C15: add_sos_type_1 and add_sos_type_2 fail with a KeyError when a row of
\* their table names a variable id that is no key of the registry, and the
\* model then has the ordered sets and the variables it had before the call:
\* no new set and no new marker.
C15_UnknownVariableRejected ==
    [][(/\ SosCall(last'.op)
        /\ \E i \in DOMAIN args'.sos_variables :
              args'.sos_variables[i].variable_id \notin DOMAIN variables) =>
          /\ last'.raised = KeyError(0)
          /\ mip_sos' = mip_sos
          /\ mip_vars' = mip_vars
          /\ variables' = variables]_vars

\* A call that failed on its second row, the first row naming a registered
\* variable, on a model that already has an ordered set and its marker.
C15_Witness ==
    /\ SosCall(last.op)
    /\ Failed
    /\ Len(args.sos_variables) = 2
    /\ args.sos_variables[1].variable_id \in DOMAIN variables
    /\ args.sos_variables[2].variable_id \notin DOMAIN variables
    /\ mip_sos # <<>>

----------------------------------------------------------------------------
----------------------------------------------------------------------------
\* The ids of the rows of a cost table, and the cost of the row of an id.
Listed(costs) == {costs[i].variable_id : i \in DOMAIN costs}

CostOf(costs, v) == costs[CHOOSE i \in DOMAIN costs : costs[i].variable_id = v].cost

\* C17: when add_objective_function returns, the objective coefficient of
\* every registered variable is the cost of its row of the table of this
\* call, and 0 when the table has no row for it, whatever the tables of the
\* earlier calls were.
C17_ObjectiveReplaced ==
    (last.op = "add_objective_function" /\ ~Failed) =>
        LET costs == args[Len(args)]
        IN \A v \in DOMAIN variables :
              mip_vars[variables[v]].obj = IF v \in Listed(costs) THEN CostOf(costs, v) ELSE 0

\* A second call has returned whose table has no row for a variable that
\* the table of the first call has a row for.
C17_Witness ==
    /\ last.op = "add_objective_function" /\ ~Failed
    /\ Len(args) = 2
    /\ Listed(args[1]) \subseteq DOMAIN variables
    /\ \E v \in Listed(args[1]) \ Listed(args[2]) : mip_vars[variables[v]].obj = 0

----------------------------------------------------------------------------
\* C18: update_rhs of the id of a constraint of the model returns with the
\* right-hand side of that constraint increased by violation_degree and the
\* rest of that constraint, every other constraint, the variables and the
\* registry as they were; update_rhs of any other id raises and changes
\* nothing.
C18_OnlyRhsOfNamedConstraint ==
    [][last'.op = "update_rhs" =>
          LET name == Str(args'.constraint_id)
              delta == args'.violation_degree
          IN /\ variables' = variables
             /\ mip_vars' = mip_vars
             /\ mip_sos' = mip_sos
             /\ DOMAIN mip_constrs' = DOMAIN mip_constrs
             /\ IF \E i \in DOMAIN mip_constrs : mip_constrs[i].name = name
                THEN /\ last'.raised = NoError
                     /\ \A i \in DOMAIN mip_constrs :
                           mip_constrs'[i] =
                               IF mip_constrs[i].name = name
                               THEN [mip_constrs[i] EXCEPT !.rhs = mip_constrs[i].rhs + delta]
                               ELSE mip_constrs[i]
                ELSE /\ last'.raised = AttributeError
                     /\ mip_constrs' = mip_constrs]_vars

\* update_rhs has changed the right-hand side of one of two constraints.
C18_Witness ==
    /\ last.op = "update_rhs" /\ ~Failed
    /\ Len(mip_constrs) = 2
    /\ \E i \in DOMAIN mip_constrs :
          /\ mip_constrs[i].name = Str(args.constraint_id)
          /\ mip_constrs[i].rhs # 3

\* update_rhs of an id that names no constraint of the model has raised.
C18_WitnessUnknown ==
    /\ last.op = "update_rhs" /\ Failed
    /\ mip_constrs # <<>>

----------------------------------------------------------------------------
\* The model holds the variables 0..5 with the bounds [0,5], [0,5], [0,10],
\* [0,10], [0,5], [0,5] and the costs 1, 2, 0, -1, 5, 0, and the one
\* constraint x0 + x1 + x3 + x4 = 20, and optimize has been called.
DispatchOptimized ==
    /\ last.op = "optimize"
    /\ [j \in DOMAIN mip_vars |-> <<mip_vars[j].name, mip_vars[j].lb, mip_vars[j].ub,
                                    mip_vars[j].obj>>]
          = <<(<<"0", 0, 5, 1>>), (<<"1", 0, 5, 2>>), (<<"2", 0, 10, 0>>),
              (<<"3", 0, 10, -1>>), (<<"4", 0, 5, 5>>), (<<"5", 0, 5, 0>>)>>
    /\ Len(mip_constrs) = 1
    /\ mip_constrs[1].sense = "=" /\ mip_constrs[1].rhs = 20
    /\ \A j \in DOMAIN mip_vars :
          Coeff(mip_constrs[1], j) = IF j \in {1, 2, 4, 5} THEN 1 ELSE 0

\* The value of the variable of id v in the solution.
ValueOf(v) == solution.x[variables[v]]

\* C19, as stated: the optimal solution of that model has x3 at 10 and x0
\* and x1 at 0.
C19_NegativeCostOnly ==
    DispatchOptimized =>
        /\ ~Failed
        /\ ValueOf(3) = 10 * solution.scale
        /\ ValueOf(0) = 0
        /\ ValueOf(1) = 0

\* C19: optimize of that model returns with x3 at its upper bound 10, x0 and
\* x1 at their upper bound 5 and x4 at 0, the objective value being 5.
C19_CheapestFirst ==
    DispatchOptimized =>
        /\ ~Failed
        /\ solution.status = "OPTIMAL"
        /\ ValueOf(3) = 10 * solution.scale
        /\ ValueOf(0) = 5 * solution.scale
        /\ ValueOf(1) = 5 * solution.scale
        /\ ValueOf(4) = 0
        /\ solution.objective_value = 5 * solution.scale

\* optimize has returned for that model.
C19_Witness == DispatchOptimized /\ ~Failed

----------------------------------------------------------------------------
\* The pairs of a row of constraints and a row of decision_variables that
\* agree on every join column.
MatchingPairs(constraints, decision_variables, join_columns) ==
    {pair \in (DOMAIN constraints) \X (DOMAIN decision_variables) :
        Agree(constraints[pair[1]], decision_variables[pair[2]], join_columns)}

\* C20: the table create_lhs returns has one row for every matching pair
\* and no other row, the row of a pair holding the constraint_id of its
\* constraint row, the variable_id of its variable row and the product of
\* their coefficients; it has no row when no pair matches; and the two
\* tables handed to the call are after it what they were before.
C20_OneRowPerMatchingPair ==
    [][last'.op = "create_lhs" =>
          LET pairs == MatchingPairs(args.constraints, args.decision_variables,
                                     args.join_columns)
              lhs == last'.ret
          IN /\ Len(lhs) = Cardinality(pairs)
             /\ \E f \in [DOMAIN lhs -> pairs] :
                   /\ \A q, r \in DOMAIN lhs : q # r => f[q] # f[r]
                   /\ \A r \in DOMAIN lhs :
                         lhs[r] = [constraint_id |-> args.constraints[f[r][1]].constraint_id,
                                   variable_id   |-> args.decision_variables[f[r][2]].variable_id,
                                   coefficient   |-> args.constraints[f[r][1]].coefficient
                                                     * args.decision_variables[f[r][2]].coefficient]
             /\ pairs = {} => lhs = <<>>
             /\ args'.constraints = args.constraints
             /\ args'.decision_variables = args.decision_variables]_vars

\* create_lhs has returned two rows for one constraint, with coefficients
\* that are products of two coefficients other than 1.
C20_Witness ==
    /\ last.op = "create_lhs"
    /\ Len(last.ret) = 2
    /\ last.ret[1].constraint_id = last.ret[2].constraint_id
    /\ last.ret[1].coefficient = 4

\* create_lhs has returned a table of no row for two tables that have rows.
C20_WitnessEmpty ==
    /\ last.op = "create_lhs"
    /\ last.ret = <<>>
    /\ args.constraints # <<>> /\ args.decision_variables # <<>>

----------------------------------------------------------------------------
\* C21, as stated: after any add_variables, remove_variables,
\* disable_variables, add_sos_type_1 or add_sos_type_2 the ids of the
\* registry are the ids whose names variables of the native model bear, and
\* the registry maps each of them to a variable of the model that bears its
\* name.
C21_RegistryIsLive ==
    /\ DOMAIN variables = LiveIds
    /\ \A v \in DOMAIN variables :
          /\ variables[v] \in DOMAIN mip_vars
          /\ mip_vars[variables[v]].name = Str(v)

----------------------------------------------------------------------------
\* C22, as stated: copy() returns a copy for every model, a model that holds
\* the marker variable of add_sos_type_1 or add_sos_type_2 included, and the
\* ids of the registry of the copy are the ids whose names variables of the
\* model bear.
C22_CopySucceeds ==
    last.op = "copy" =>
        /\ ~Failed
        /\ other # NoCopy
        /\ DOMAIN other.variables = LiveIds

====
